---- MODULE Spec2Model ----
(***************************************************************************)
(* A model of h2h's front-matter conversion pipeline: the document         *)
(* splitter and converter (ConvertMarkdown), the front-matter transcoder   *)
(* (ConvertFrontMatter), the per-file processor (ProcessFile) and the      *)
(* directory engine (ConvertPosts), in the two iterations of the package   *)
(* that the sources hold: internal/convert.go ("convert") and              *)
(* unnamed/part_000 ("part_000").                                          *)
(*                                                                         *)
(* Text is a sequence of tokens.  A token is a tuple of strings: <<"-">>   *)
(* is one dash character, <<"n">> a newline, <<"x">> a run of other        *)
(* non-blank text, <<"{}">> the YAML flow mapping "{}", and                *)
(* <<fmt, key, value>> is the line that writes key and value in the        *)
(* structured format fmt.  The delimiter "---" is three dash tokens, so    *)
(* the search for it works on characters.                                  *)
(***************************************************************************)
EXTENDS Integers, Sequences, FiniteSets, TLC

VARIABLES
    tables,            \* the package-level vars formatHandlers and keyMappings
    variant,           \* which iteration of the package runs
    cfg,               \* *Config
    tree,              \* the source tree, in walk order (the environment)
    dst,               \* destination files: path -> [exists, content]
    dstDirs,           \* destination directories created so far
    mainPC,            \* position of ConvertPosts
    walkIdx,           \* next entry of the walk / next index of files
    files,             \* part_000: the collected matching files
    wpc,               \* position of each worker goroutine
    werr,              \* what ProcessFile returned in each worker
    mu,                \* holder of the mutex (0: unlocked)
    conversionErrors,  \* the failure aggregate
    fileCount,         \* part_000: atomic success counter
    ctxDone,           \* the group context was cancelled
    gErr,              \* the errgroup's first error
    ret,               \* what ConvertPosts returned
    input,             \* argument of the pure function under study
    output             \* its result

engineVars == <<tables, tree, dst, dstDirs, mainPC, walkIdx, files, wpc, werr, mu,
                conversionErrors, fileCount, ctxDone, gErr, ret>>
vars == <<tables, variant, cfg, tree, dst, dstDirs, mainPC, walkIdx, files, wpc, werr,
          mu, conversionErrors, fileCount, ctxDone, gErr, ret, input, output>>

Variants == {"convert", "part_000"}

-----------------------------------------------------------------------------
(* Constants of the package *)

DirectionHexoToHugo == "hexo2hugo"
DirectionHugoToHexo == "hugo2hexo"
FormatYAML == "yaml"
FormatTOML == "toml"
DefaultFileExtension == ".md"

Dash == <<"-">>
NL == <<"n">>
Txt == <<"x">>
Braces == <<"{}">>
FrontMatterDelimiter == <<Dash, Dash, Dash>>

ErrInvalidMarkdown == "ErrInvalidMarkdown"
ErrUnsupportedFormat == "ErrUnsupportedFormat"
NoErr == "nil"

\* formatHandlers: the formats that have a handler.
formatHandlers == {FormatYAML, FormatTOML}

\* Tables of which the second does not take "weight" back to "sticky".
keyMappingsOneWay ==
    (DirectionHexoToHugo :>
        ("permalink" :> "slug" @@ "updated" :> "lastmod" @@ "sticky" :> "weight"))
    @@
    (DirectionHugoToHexo :>
        ("slug" :> "permalink" @@ "lastmod" :> "updated"))

\* keyMappings: direction -> (source key -> target key).
keyMappings ==
    (DirectionHexoToHugo :>
        ("permalink" :> "slug" @@ "updated" :> "lastmod" @@ "sticky" :> "weight"))
    @@
    (DirectionHugoToHexo :>
        ("slug" :> "permalink" @@ "lastmod" :> "updated" @@ "weight" :> "sticky"))

EmptyMap == [k \in {} |-> "v1"]

\* The two package-level variables as the package initialises them.
PackageTables == [formatHandlers |-> formatHandlers, keyMappings |-> keyMappings]

-----------------------------------------------------------------------------
(* strings: Index, SplitN, Count, TrimSpace *)

DelimAt(s, i) ==
    /\ i >= 1
    /\ i + Len(FrontMatterDelimiter) - 1 <= Len(s)
    /\ \A j \in 1..Len(FrontMatterDelimiter) : s[i + j - 1] = FrontMatterDelimiter[j]

\* strings.Index(s, "---"): the first position of the delimiter, 0 when none.
Index(s) ==
    IF \E i \in 1..Len(s) : DelimAt(s, i)
    THEN CHOOSE i \in 1..Len(s) : DelimAt(s, i) /\ \A j \in 1..(i - 1) : ~DelimAt(s, j)
    ELSE 0

RECURSIVE SplitAll(_)
\* strings.Split(s, "---"): every occurrence is a boundary.
SplitAll(s) ==
    LET i == Index(s) IN
    IF i = 0 THEN <<s>>
    ELSE <<SubSeq(s, 1, i - 1)>>
         \o SplitAll(SubSeq(s, i + Len(FrontMatterDelimiter), Len(s)))

RECURSIVE SplitUpTo(_, _)
SplitUpTo(s, n) ==
    LET i == Index(s) IN
    IF n <= 1 \/ i = 0 THEN <<s>>
    ELSE <<SubSeq(s, 1, i - 1)>>
         \o SplitUpTo(SubSeq(s, i + Len(FrontMatterDelimiter), Len(s)), n - 1)

\* A splitter that cuts at every delimiter and keeps the first three pieces.
SplitNEvery(s, n) ==
    LET a == SplitAll(s) IN IF Len(a) <= n THEN a ELSE SubSeq(a, 1, n)

\* strings.SplitN(s, FrontMatterDelimiter, n) for n > 0: at most n pieces,
\* the last one the unsplit remainder.
SplitN(s, n) == SplitUpTo(s, n)

RECURSIVE TrimLeft(_)
TrimLeft(s) == IF s # <<>> /\ Head(s) = NL THEN TrimLeft(Tail(s)) ELSE s

RECURSIVE TrimRight(_)
TrimRight(s) ==
    IF s # <<>> /\ s[Len(s)] = NL THEN TrimRight(SubSeq(s, 1, Len(s) - 1)) ELSE s

\* strings.TrimSpace
TrimSpace(s) == TrimRight(TrimLeft(s))

-----------------------------------------------------------------------------
(* The structured-format codec: yaml.v3 and BurntSushi/toml behind          *)
(* FormatHandler.  A decoded mapping is a function from its keys to values. *)
(* The value "u" stands for a nested mapping with a non-string key: YAML    *)
(* reads and writes it, TOML has no syntax for it and its encoder rejects   *)
(* it.                                                                      *)

\* The keys in the order both encoders write them (sorted).
KeyOrder == <<"lastmod", "permalink", "slug", "sticky", "title", "updated", "weight">>
AllKeys == {KeyOrder[i] : i \in 1..Len(KeyOrder)}
Values == {"v1", "v2"}
Unencodable == "u"

IsEntry(t, fmt) ==
    /\ Len(t) = Len(<<fmt, "k", "v">>)
    /\ t[1] = fmt
    /\ ~(fmt = FormatTOML /\ t[Len(t)] = Unencodable)

NotBlank(t) == t # NL

\* FormatHandler.Unmarshal into map[string]interface{}.
Unmarshal(fmt, text) ==
    LET toks == SelectSeq(text, NotBlank) IN
    IF toks = <<>> THEN [err |-> FALSE, m |-> EmptyMap]
    ELSE IF fmt = FormatYAML /\ toks = <<Braces>> THEN [err |-> FALSE, m |-> EmptyMap]
    ELSE IF \E i \in 1..Len(toks) : ~IsEntry(toks[i], fmt)
        THEN [err |-> TRUE, m |-> EmptyMap]
    ELSE IF \E i, j \in 1..Len(toks) : i # j /\ toks[i][2] = toks[j][2]
        THEN [err |-> TRUE, m |-> EmptyMap]     \* a key defined twice
    ELSE [err |-> FALSE,
          m |-> [k \in {toks[i][2] : i \in 1..Len(toks)} |->
                    LET i == CHOOSE i \in 1..Len(toks) : toks[i][2] = k
                    IN toks[i][3]]]

InMap(m) == LET Test(k) == k \in DOMAIN m IN SelectSeq(KeyOrder, Test)

RECURSIVE Lines(_, _, _)
Lines(fmt, m, ks) ==
    IF ks = <<>> THEN <<>>
    ELSE <<(<<fmt, Head(ks), m[Head(ks)]>>), NL>> \o Lines(fmt, m, Tail(ks))

\* FormatHandler.Marshal: the bytes written to the buffer.
Marshal(fmt, m) ==
    IF fmt = FormatTOML /\ \E k \in DOMAIN m : m[k] = Unencodable
        THEN [err |-> TRUE, text |-> <<>>]
    ELSE IF fmt = FormatYAML /\ DOMAIN m = {}
        THEN [err |-> FALSE, text |-> <<Braces, NL>>]
    ELSE [err |-> FALSE, text |-> Lines(fmt, m, InMap(m))]

-----------------------------------------------------------------------------
(* NewFrontMatterConverter and ConvertFrontMatter *)

\* A format check that looks at the source format only.
FormatsSupportedSourceOnly(c) == c.SourceFormat \in tables.formatHandlers

\* NewFrontMatterConverter: the format check.
FormatsSupported(c) ==
    /\ c.SourceFormat \in tables.formatHandlers
    /\ c.TargetFormat \in tables.formatHandlers

\* NewFrontMatterConverter: fmc.keyMap.  A direction without a table gives a
\* nil map (convert.go) or an empty one (part_000); both map no key.
KeyMapOf(direction) ==
    IF direction \in DOMAIN tables.keyMappings
    THEN tables.keyMappings[direction] ELSE EmptyMap

\* A constructor that stores the inverse of the direction's table in the
\* package-level keyMappings, under the other direction.
TablesAfterNewConverterStoring(t, c) ==
    IF c.ConversionDirection = DirectionHugoToHexo
    THEN [t EXCEPT !.keyMappings[DirectionHexoToHugo] =
                      t.keyMappings[DirectionHugoToHexo] @@ @]
    ELSE t

\* What NewFrontMatterConverter leaves in the package-level variables: it
\* indexes formatHandlers and keyMappings and assigns to neither.
TablesAfterNewConverter(t, c) == t

\* A remap that looks the key up in the table of the other direction.
TargetKeyReversed(keyMap, key) ==
    IF \E k \in DOMAIN keyMap : keyMap[k] = key
    THEN CHOOSE k \in DOMAIN keyMap : keyMap[k] = key
    ELSE key

\* The loop body: targetKey is the table's entry for key, or key itself.
TargetKey(keyMap, key) == IF key \in DOMAIN keyMap THEN keyMap[key] ELSE key

RECURSIVE Remaps(_, _, _)
\* The maps the loop "for key, value := range frontMatterMap" can leave in
\* convertedMap.  Go visits the keys of a map in an unspecified order and
\* convertedMap[targetKey] = value overwrites: when two keys have the same
\* target key the one visited last wins, and any of them can be last.
Remaps(keyMap, m, targets) ==
    IF targets = {} THEN {EmptyMap}
    ELSE LET t == CHOOSE t \in targets : TRUE
             sources == {k \in DOMAIN m : TargetKey(keyMap, k) = t}
         IN {(t :> m[k]) @@ rest : k \in sources, rest \in Remaps(keyMap, m, targets \ {t})}

ConvertedMaps(keyMap, m) ==
    Remaps(keyMap, m, {TargetKey(keyMap, k) : k \in DOMAIN m})

\* A Sprintf with a blank line after the opening delimiter.
SprintfBlankLine(text) == FrontMatterDelimiter \o <<NL, NL>> \o text \o FrontMatterDelimiter

\* A Sprintf that leaves out the closing delimiter.
SprintfUnclosed(text) == FrontMatterDelimiter \o <<NL>> \o text

\* fmt.Sprintf("%s\n%s%s", FrontMatterDelimiter, buf.String(), FrontMatterDelimiter)
Sprintf(text) == FrontMatterDelimiter \o <<NL>> \o text \o FrontMatterDelimiter

\* ConvertFrontMatter: the set of results (error, text) it can return; cm is
\* the convertedMap it encoded.
ConvertFrontMatter(c, frontMatter) ==
    LET d == Unmarshal(c.SourceFormat, frontMatter) IN
    IF d.err THEN {[err |-> "unmarshal", out |-> <<>>, cm |-> EmptyMap]}
    ELSE {LET e == Marshal(c.TargetFormat, cm) IN
          IF e.err THEN [err |-> "marshal", out |-> <<>>, cm |-> cm]
          ELSE [err |-> NoErr, cm |-> cm,
                out |-> Sprintf(e.text)]
          : cm \in ConvertedMaps(KeyMapOf(c.ConversionDirection), d.m)}

-----------------------------------------------------------------------------
(* ConvertMarkdown, up to the write *)

\* "if len(parts) < 3"
TooFewParts(parts) == Len(parts) < Len(<<"before", "front matter", "body">>)

\* The front matter handed to ConvertFrontMatter: part_000 trims it.
FrontMatterOf(v, parts) == IF v = "part_000" THEN TrimSpace(parts[2]) ELSE parts[2]

\* The rest of ConvertMarkdown once the content has three parts: the front
\* matter is converted and "%s\n\n%s" of it and parts[2] goes to the writer.
\* front is the converted front matter, kept for the claims.
ConvertParts(v, c, parts) ==
    {IF r.err # NoErr THEN [err |-> r.err, text |-> <<>>, front |-> <<>>, body |-> <<>>]
     ELSE [err |-> NoErr, text |-> r.out \o <<NL, NL>> \o parts[3],
           front |-> r.out, body |-> parts[3]]
     : r \in ConvertFrontMatter(c, FrontMatterOf(v, parts))}

InvalidMarkdown ==
    {[err |-> ErrInvalidMarkdown, text |-> <<>>, front |-> <<>>, body |-> <<>>]}

\* A converter that copies a file without any delimiter as it is.
ConvertMarkdownCopying(v, c, content) ==
    LET parts == SplitN(content, Len(<<"before", "front matter", "body">>)) IN
    IF Len(parts) = 1
    THEN {[err |-> NoErr, text |-> content, front |-> <<>>, body |-> content]}
    ELSE IF TooFewParts(parts) THEN InvalidMarkdown
    ELSE ConvertParts(v, c, parts)

\* What ConvertMarkdown does with the content it has read: the error it
\* returns and the text it hands to the writer (nothing on an error).
ConvertMarkdown(v, c, content) ==
    LET parts == SplitN(content, Len(<<"before", "front matter", "body">>)) IN
    IF TooFewParts(parts) THEN InvalidMarkdown
    ELSE ConvertParts(v, c, parts)

-----------------------------------------------------------------------------
(* Paths.  A path is a sequence of names and a name a sequence of pieces,   *)
(* the last piece being its extension: <<"a", ".md">> is a.md.              *)

srcDir == <<(<<"src">>)>>
dstDir == <<(<<"dst">>)>>

\* A suffix test that every path passes.
HasSuffixAlways(path, ext) == TRUE
\* strings.HasSuffix(path, fileExt)
HasSuffix(path, ext) ==
    path # <<>> /\ path[Len(path)][Len(path[Len(path)])] = ext

\* A relative path that keeps the base name only.
RelBaseName(base, path) == <<path[Len(path)]>>
\* filepath.Rel(base, path) for a path below base.
Rel(base, path) == SubSeq(path, Len(base) + 1, Len(path))
\* filepath.Join
Join(dir, rel) == dir \o rel
\* filepath.Dir
Dir(path) == SubSeq(path, 1, Len(path) - 1)
\* A destination path that keeps the file's name only.
DstPathFlat(path) == Join(dstDir, <<path[Len(path)]>>)
\* "dstPath := filepath.Join(fp.dstDir, relPath)"
DstPath(path) == Join(dstDir, Rel(srcDir, path))
\* os.MkdirAll: the directory and its missing parents.
MkdirAll(dirs, d) == dirs \cup {SubSeq(d, 1, k) : k \in 0..Len(d)}

-----------------------------------------------------------------------------
(* bufio.Writer over the destination file (part_000).  A writer stack W     *)
(* holds the file's content and the buffers layered on it: level 0 is the   *)
(* file, level k the k-th bufio.Writer.  fault: the file's Write fails.     *)

BufSize == 12

FileWrite(W, s, fault) ==
    IF fault
    THEN [w |-> [W EXCEPT !.file = @ \o SubSeq(s, 1, Len(s) \div 2)], err |-> TRUE]
    ELSE [w |-> [W EXCEPT !.file = @ \o s], err |-> FALSE]

RECURSIVE WriteString(_, _, _, _)
RECURSIVE Flush(_, _, _)

\* (*Writer).WriteString / Write at level lvl: fill the buffer, flush it
\* whenever s does not fit, keep the rest buffered; a failed flush sticks.
WriteString(W, lvl, s, fault) ==
    IF lvl = 0 THEN FileWrite(W, s, fault)
    ELSE IF W.errs[lvl] THEN [w |-> W, err |-> TRUE]
    ELSE LET avail == BufSize - Len(W.bufs[lvl]) IN
         IF Len(s) > avail
         THEN LET filled == [W EXCEPT !.bufs[lvl] = @ \o SubSeq(s, 1, avail)]
                  fl == Flush(filled, lvl, fault)
              IN IF fl.err THEN fl
                 ELSE WriteString(fl.w, lvl, SubSeq(s, avail + 1, Len(s)), fault)
         ELSE [w |-> [W EXCEPT !.bufs[lvl] = @ \o s], err |-> FALSE]

\* (*Writer).Flush: the sticky error, nothing to do on an empty buffer,
\* otherwise one Write to the level below.
Flush(W, lvl, fault) ==
    IF lvl = 0 THEN [w |-> W, err |-> FALSE]
    ELSE IF W.errs[lvl] THEN [w |-> W, err |-> TRUE]
    ELSE IF W.bufs[lvl] = <<>> THEN [w |-> W, err |-> FALSE]
    ELSE LET r == WriteString(W, lvl - 1, W.bufs[lvl], fault) IN
         IF r.err THEN [w |-> [r.w EXCEPT !.errs[lvl] = TRUE], err |-> TRUE]
         ELSE [w |-> [r.w EXCEPT !.bufs[lvl] = <<>>], err |-> FALSE]

Wrap(W) ==
    [w |-> [W EXCEPT !.bufs = Append(@, <<>>), !.errs = Append(@, FALSE)],
     lvl |-> Len(W.bufs) + 1]

\* A NewWriter that wraps whatever it is given in a buffer of its own.
BufioNewWriterWrapping(W, lvl) == Wrap(W)

\* bufio.NewWriter(w): a writer that is already a *bufio.Writer of the
\* default size is returned as it is; anything else gets a new buffer.
BufioNewWriter(W, lvl) == IF lvl >= 1 THEN [w |-> W, lvl |-> lvl] ELSE Wrap(W)

EmptyFile == [file |-> <<>>, bufs |-> <<>>, errs |-> <<>>]

\* part_000, ConvertMarkdown from "writer := bufio.NewWriter(w)" on, w being
\* the writer at level lvl: three WriteStrings and the Flush.
WriteBuffered(W, lvl, front, body, fault) ==
    LET nw == BufioNewWriter(W, lvl)
        r1 == WriteString(nw.w, nw.lvl, front, fault)
        r2 == WriteString(r1.w, nw.lvl, <<NL, NL>>, fault)
        r3 == WriteString(r2.w, nw.lvl, body, fault)
    IN  IF r1.err THEN r1
        ELSE IF r2.err THEN r2
        ELSE IF r3.err THEN r3
        ELSE Flush(r3.w, nw.lvl, fault)

-----------------------------------------------------------------------------
(* ProcessFile from the created destination file on: ConvertMarkdown with   *)
(* its reads and writes, the return, the deferred Close and Remove.         *)

AfterCreate == {"read", ErrInvalidMarkdown, "unmarshal", "marshal", "write", "flush"}

\* convert.go: "if err := fp.converter.ConvertMarkdown(srcFile, dstFile)"
\* declares a new err for the if statement, and the function's result is
\* unnamed: the err that the deferred closure reads is still the nil that
\* os.Create returned.  part_000 assigns ConvertMarkdown's result to that
\* err, but not the result of the final "return bufWriter.Flush()".
DeferredErr(v, convertErr) == IF v = "part_000" THEN convertErr ELSE NoErr

\* The deferred closure: Close, and Remove when err is not nil.
Deferred(v, convertErr, file) ==
    IF DeferredErr(v, convertErr) # NoErr THEN [exists |-> FALSE, content |-> <<>>]
    ELSE [exists |-> TRUE, content |-> file]

\* convert.go: fmt.Fprintf(w, "%s\n\n%s", ...) is one Write to the file.
ConvertConvert(c, e) ==
    IF e.fault = "read" THEN {[err |-> "read", file |-> Deferred("convert", "read", <<>>)]}
    ELSE {IF r.err # NoErr THEN [err |-> r.err, file |-> Deferred("convert", r.err, <<>>)]
          ELSE LET wr == FileWrite(EmptyFile, r.text, e.fault = "write")
                   err == IF wr.err THEN "write" ELSE NoErr
               IN [err |-> err, file |-> Deferred("convert", err, wr.w.file)]
          : r \in ConvertMarkdown("convert", c, e.content)}

\* part_000: "bufWriter := bufio.NewWriter(dstFile)", ConvertMarkdown writing
\* to it through its own bufio.NewWriter, then "return bufWriter.Flush()".
ConvertBuffered(c, e) ==
    IF e.fault = "read" THEN {[err |-> "read", file |-> Deferred("part_000", "read", <<>>)]}
    ELSE {IF r.err # NoErr THEN [err |-> r.err, file |-> Deferred("part_000", r.err, <<>>)]
          ELSE LET fault == e.fault = "write"
                   bw == BufioNewWriter(EmptyFile, 0)
                   wr == WriteBuffered(bw.w, bw.lvl, r.front, r.body, fault)
                   err == IF wr.err THEN "write" ELSE NoErr
                   last == Flush(wr.w, bw.lvl, fault)
               IN IF err # NoErr
                  THEN [err |-> err, file |-> Deferred("part_000", err, wr.w.file)]
                  ELSE [err |-> IF last.err THEN "flush" ELSE NoErr,
                        file |-> Deferred("part_000", NoErr, last.w.file)]
          : r \in ConvertMarkdown("part_000", c, e.content)}

ConvertAndClose(v, c, e) ==
    IF v = "part_000" THEN ConvertBuffered(c, e) ELSE ConvertConvert(c, e)

-----------------------------------------------------------------------------
(* The environment: a source tree in walk order.  Each entry has a path, is *)
(* a directory or a file with a content, and a fault: the I/O operation on  *)
(* it (or on its destination) that fails.                                   *)

Y(k, v) == <<FormatYAML, k, v>>

DocPost ==
    FrontMatterDelimiter \o <<NL, Y("title", "v1"), NL, Y("permalink", "v2"), NL>>
    \o FrontMatterDelimiter \o <<NL, Txt>>
DocSmall == FrontMatterDelimiter \o <<Y("title", "v1")>> \o FrontMatterDelimiter
DocNoDelimiter == <<Txt, NL, Txt>>
DocBadFrontMatter == FrontMatterDelimiter \o <<Txt>> \o FrontMatterDelimiter \o <<Txt>>
DocNested ==
    FrontMatterDelimiter \o <<Y("title", Unencodable), NL>> \o FrontMatterDelimiter \o <<Txt>>
DocBothKeys ==
    FrontMatterDelimiter \o <<Y("permalink", "v1"), NL, Y("slug", "v2"), NL>>
    \o FrontMatterDelimiter \o <<Txt>>

Faults == {"none", "mkdir", "open", "create", "read", "write"}
\* The fault of a directory that cannot be listed: the walk function is
\* called for it a second time, with the error.
WalkFault == "walk"

File(path, content, fault) ==
    [path |-> srcDir \o path, isDir |-> FALSE, content |-> content, fault |-> fault]
Directory(path) ==
    [path |-> srcDir \o path, isDir |-> TRUE, content |-> <<>>, fault |-> "none"]
UnreadableDirectory(path) ==
    [path |-> srcDir \o path, isDir |-> TRUE, content |-> <<>>, fault |-> WalkFault]

FirstFiles ==
    {File(<<(<<"a", ".md">>)>>, DocPost, f) : f \in Faults}
    \cup {File(<<(<<"a", ".md">>)>>, d, "none")
            : d \in {DocSmall, DocNoDelimiter, DocBadFrontMatter, DocNested, DocBothKeys}}
    \cup {File(<<(<<"a", ".md">>)>>, DocSmall, "write")}
SecondFiles ==
    {File(<<(<<"b", ".md">>)>>, DocPost, "none"),
     File(<<(<<"b", ".md">>)>>, DocNoDelimiter, "none"),
     File(<<(<<"b", ".md">>)>>, DocSmall, "write")}
NestedFiles ==
    {File(<<(<<"sub", ".md">>), (<<"a", ".md">>)>>, DocPost, "none"),
     File(<<(<<"sub", ".md">>), (<<"a", ".md">>)>>, DocBothKeys, "none")}

\* The walk visits the root, then the names of each directory in lexical
\* order: a.md, b.md, the directory sub.md and its own a.md, z.txt.
ReadableTrees ==
    {<<Directory(<<>>), a, b, Directory(<<(<<"sub", ".md">>)>>), c,
       File(<<(<<"z", ".txt">>)>>, <<Txt>>, "none")>>
     : a \in FirstFiles, b \in SecondFiles, c \in NestedFiles}

\* Trees whose directory sub.md cannot be listed: the walk ends there.
UnreadableTrees ==
    {<<Directory(<<>>), File(<<(<<"a", ".md">>)>>, d, "none"), b,
       UnreadableDirectory(<<(<<"sub", ".md">>)>>),
       File(<<(<<"sub", ".md">>), (<<"a", ".md">>)>>, DocPost, "none"),
       File(<<(<<"z", ".txt">>)>>, <<Txt>>, "none")>>
     : d \in {DocPost, DocNoDelimiter}, b \in SecondFiles}

Trees == ReadableTrees \cup UnreadableTrees

ConcurrencyLevels == {1, 2, 4, 8}

EngineConfigs ==
    [SourceFormat : {FormatYAML}, TargetFormat : {FormatYAML, FormatTOML},
     FileExtension : {DefaultFileExtension}, MaxConcurrency : ConcurrencyLevels,
     ConversionDirection : {DirectionHexoToHugo}]
    \cup
    [SourceFormat : {"json"}, TargetFormat : {FormatYAML},
     FileExtension : {DefaultFileExtension}, MaxConcurrency : {1},
     ConversionDirection : {DirectionHexoToHugo}]
    \cup
    [SourceFormat : {FormatYAML}, TargetFormat : {"json"},
     FileExtension : {DefaultFileExtension}, MaxConcurrency : {1},
     ConversionDirection : {DirectionHexoToHugo}]
    \cup
    [SourceFormat : {FormatYAML}, TargetFormat : {FormatYAML},
     FileExtension : {DefaultFileExtension}, MaxConcurrency : {1},
     ConversionDirection : {"other"}]
    \cup
    [SourceFormat : {FormatYAML}, TargetFormat : {FormatYAML},
     FileExtension : {DefaultFileExtension}, MaxConcurrency : {0},
     ConversionDirection : {DirectionHexoToHugo}]

-----------------------------------------------------------------------------
(* ConvertPosts *)

Entries == 1..Len(tree)
Active(i) == wpc[i] \notin {"idle", "returned"}
NoFile == [exists |-> FALSE, content |-> <<>>]
Returned(err, n) == [returned |-> TRUE, err |-> err, n |-> n]

\* ConvertPosts is called: no destination file yet, no worker, an empty
\* aggregate.
EngineStart ==
    /\ dst = [p \in {DstPath(tree[i].path) : i \in {j \in 1..Len(tree) : ~tree[j].isDir}}
                |-> NoFile]
    /\ dstDirs = {}
    /\ mainPC = "start"
    /\ walkIdx = 1
    /\ files = <<>>
    /\ wpc = [i \in 1..Len(tree) |-> "idle"]
    /\ werr = [i \in 1..Len(tree) |-> NoErr]
    /\ mu = 0
    /\ conversionErrors = <<>>
    /\ fileCount = 0
    /\ ctxDone = FALSE
    /\ gErr = NoErr
    /\ ret = [returned |-> FALSE]
    /\ input = [none |-> TRUE]
    /\ output = [done |-> FALSE]

Init ==
    /\ tables = PackageTables
    /\ variant \in Variants
    /\ cfg \in EngineConfigs
    /\ tree \in Trees
    /\ EngineStart

\* "os.MkdirAll(dstDir, 0755)"
MkdirDst ==
    /\ mainPC = "start"
    /\ dstDirs' = MkdirAll(dstDirs, dstDir)
    /\ mainPC' = "converter"
    /\ UNCHANGED <<tables, variant, cfg, tree, dst, walkIdx, files, wpc, werr, mu,
                   conversionErrors, fileCount, ctxDone, gErr, ret, input, output>>

\* "converter, err := NewMarkdownConverter(cfg)", then the processor, the
\* mutex and the errgroup with its limit.
NewConverter ==
    /\ mainPC = "converter"
    /\ IF FormatsSupported(cfg)
       THEN mainPC' = "walk" /\ ret' = ret
       ELSE mainPC' = "done" /\ ret' = Returned(ErrUnsupportedFormat, 0)
    /\ tables' = TablesAfterNewConverter(tables, cfg)
    /\ UNCHANGED <<variant, cfg, tree, dst, dstDirs, walkIdx, files, wpc, werr, mu,
                   conversionErrors, fileCount, ctxDone, gErr, input, output>>

\* A Go that does not wait for a free slot.
CanGoUnlimited == TRUE

\* A Go that lets one goroutine more than the limit run.
CanGoOneMore == Cardinality({i \in Entries : Active(i)}) <= cfg.MaxConcurrency

\* g.SetLimit(cfg.MaxConcurrency) and g.Go: Go blocks while the group runs
\* MaxConcurrency goroutines.
CanGo == Cardinality({i \in Entries : Active(i)}) < cfg.MaxConcurrency

\* convert.go, the walk function on a directory: "return err" (nil).
WalkSkipDir ==
    /\ variant = "convert"
    /\ mainPC = "walk"
    /\ walkIdx <= Len(tree)
    /\ tree[walkIdx].isDir
    /\ tree[walkIdx].fault # WalkFault
    /\ walkIdx' = walkIdx + 1
    /\ UNCHANGED <<tables, variant, cfg, tree, dst, dstDirs, mainPC, files, wpc, werr, mu,
                   conversionErrors, fileCount, ctxDone, gErr, ret, input, output>>

\* convert.go, the walk function on a file: g.Go of the worker.
WalkGo ==
    /\ variant = "convert"
    /\ mainPC = "walk"
    /\ walkIdx <= Len(tree)
    /\ ~tree[walkIdx].isDir
    /\ CanGo
    /\ wpc' = [wpc EXCEPT ![walkIdx] = "started"]
    /\ walkIdx' = walkIdx + 1
    /\ UNCHANGED <<tables, variant, cfg, tree, dst, dstDirs, mainPC, files, werr, mu,
                   conversionErrors, fileCount, ctxDone, gErr, ret, input, output>>

\* part_000, the WalkDir function: a matching file is appended to files.
WalkCollect ==
    /\ variant = "part_000"
    /\ mainPC = "walk"
    /\ walkIdx <= Len(tree)
    /\ tree[walkIdx].fault # WalkFault
    /\ files' = IF ~tree[walkIdx].isDir /\ HasSuffix(tree[walkIdx].path, cfg.FileExtension)
                THEN Append(files, walkIdx) ELSE files
    /\ walkIdx' = walkIdx + 1
    /\ UNCHANGED <<tables, variant, cfg, tree, dst, dstDirs, mainPC, wpc, werr, mu,
                   conversionErrors, fileCount, ctxDone, gErr, ret, input, output>>

\* The walk function is called with an error (the directory cannot be
\* listed) and returns it: the walk stops and ConvertPosts returns
\* "walking source directory ...", without g.Wait.
WalkFails ==
    /\ mainPC = "walk"
    /\ walkIdx <= Len(tree)
    /\ tree[walkIdx].fault = WalkFault
    /\ mainPC' = "done"
    /\ ret' = Returned("walk", 0)
    /\ UNCHANGED <<tables, variant, cfg, tree, dst, dstDirs, walkIdx, files, wpc, werr, mu,
                   conversionErrors, fileCount, ctxDone, gErr, input, output>>

\* The walk returns nil: convert.go goes on to g.Wait, part_000 to its loop
\* over files.
WalkEnd ==
    /\ mainPC = "walk"
    /\ walkIdx > Len(tree)
    /\ mainPC' = IF variant = "part_000" THEN "dispatch" ELSE "wait"
    /\ walkIdx' = 1
    /\ UNCHANGED <<tables, variant, cfg, tree, dst, dstDirs, files, wpc, werr, mu,
                   conversionErrors, fileCount, ctxDone, gErr, ret, input, output>>

\* part_000, "for _, path := range files": g.Go of the worker.
LoopGo ==
    /\ mainPC = "dispatch"
    /\ walkIdx <= Len(files)
    /\ CanGo
    /\ wpc' = [wpc EXCEPT ![files[walkIdx]] = "started"]
    /\ walkIdx' = walkIdx + 1
    /\ UNCHANGED <<tables, variant, cfg, tree, dst, dstDirs, mainPC, files, werr, mu,
                   conversionErrors, fileCount, ctxDone, gErr, ret, input, output>>

LoopEnd ==
    /\ mainPC = "dispatch"
    /\ walkIdx > Len(files)
    /\ mainPC' = "wait"
    /\ UNCHANGED <<tables, variant, cfg, tree, dst, dstDirs, walkIdx, files, wpc, werr, mu,
                   conversionErrors, fileCount, ctxDone, gErr, ret, input, output>>

\* A worker function that hands the file's error to the group.
GoroutineResultErr(err) == err
\* The worker function's result: "return nil", whatever ProcessFile returned.
GoroutineResult(err) == NoErr

\* A counter that counts every file whose worker ended.
FileCountAddAlways(n, err) == n + 1
\* part_000: "fileCount.Add(1)" is reached only when ProcessFile returned
\* nil; the failure branch returns before it.
FileCountAdd(n, err) == IF err = NoErr THEN n + 1 ELSE n

\* The goroutine of g.Go ends: the first non-nil result is kept and cancels
\* the group's context, and the slot is released.  part_000 counts a file
\* whose ProcessFile returned nil.
GoroutineEnds(i, err) ==
    /\ wpc' = [wpc EXCEPT ![i] = "returned"]
    /\ werr' = [werr EXCEPT ![i] = err]
    /\ IF GoroutineResult(err) # NoErr /\ gErr = NoErr
       THEN gErr' = GoroutineResult(err) /\ ctxDone' = TRUE
       ELSE gErr' = gErr /\ ctxDone' = ctxDone
    /\ fileCount' = IF variant = "part_000" THEN FileCountAdd(fileCount, err) ELSE fileCount

\* ProcessFile returned err # nil: the worker goes for the mutex.
ProcessFileFails(i, err) ==
    /\ wpc' = [wpc EXCEPT ![i] = "failed"]
    /\ werr' = [werr EXCEPT ![i] = err]
    /\ UNCHANGED <<gErr, ctxDone, fileCount>>

\* ProcessFile up to the opened source file: the context check, the suffix
\* check, the destination path, MkdirAll of its directory, os.Open.
Prepare(i) ==
    /\ wpc[i] = "started"
    /\ LET e == tree[i] IN
       IF ctxDone
       THEN ProcessFileFails(i, "ctx") /\ dstDirs' = dstDirs
       ELSE IF ~HasSuffix(e.path, cfg.FileExtension)
       THEN GoroutineEnds(i, NoErr) /\ dstDirs' = dstDirs
       ELSE IF e.fault = "mkdir"
       THEN ProcessFileFails(i, "mkdir") /\ dstDirs' = dstDirs
       ELSE /\ dstDirs' = MkdirAll(dstDirs, Dir(DstPath(e.path)))
            /\ IF e.fault = "open"
               THEN ProcessFileFails(i, "open")
               ELSE /\ wpc' = [wpc EXCEPT ![i] = "opened"]
                    /\ UNCHANGED <<werr, gErr, ctxDone, fileCount>>
    /\ UNCHANGED <<tables, variant, cfg, tree, dst, mainPC, walkIdx, files, mu,
                   conversionErrors, ret, input, output>>

\* "dstFile, err := os.Create(dstPath)": the file exists and is empty.
Create(i) ==
    /\ wpc[i] = "opened"
    /\ IF tree[i].fault = "create"
       THEN ProcessFileFails(i, "create") /\ dst' = dst
       ELSE /\ dst' = [dst EXCEPT ![DstPath(tree[i].path)] =
                                        [exists |-> TRUE, content |-> <<>>]]
            /\ wpc' = [wpc EXCEPT ![i] = "created"]
            /\ UNCHANGED <<werr, gErr, ctxDone, fileCount>>
    /\ UNCHANGED <<tables, variant, cfg, tree, dstDirs, mainPC, walkIdx, files, mu,
                   conversionErrors, ret, input, output>>

\* ConvertMarkdown, the return of ProcessFile and its deferred closure.
Convert(i) ==
    /\ wpc[i] = "created"
    /\ \E r \in ConvertAndClose(variant, cfg, tree[i]) :
         /\ dst' = [dst EXCEPT ![DstPath(tree[i].path)] = r.file]
         /\ IF r.err = NoErr THEN GoroutineEnds(i, NoErr) ELSE ProcessFileFails(i, r.err)
    /\ UNCHANGED <<tables, variant, cfg, tree, dstDirs, mainPC, walkIdx, files, mu,
                   conversionErrors, ret, input, output>>

\* A mutex that is never handed over.
UnlockedNever == FALSE
\* A mutex that never makes a caller wait.
UnlockedAlways == TRUE
\* sync.Mutex: Lock returns only while no goroutine holds the mutex.
Unlocked == mu = 0

\* "mu.Lock()"
Lock(i) ==
    /\ wpc[i] = "failed"
    /\ Unlocked
    /\ mu' = i
    /\ wpc' = [wpc EXCEPT ![i] = "locked"]
    /\ UNCHANGED <<tables, variant, cfg, tree, dst, dstDirs, mainPC, walkIdx, files, werr,
                   conversionErrors, fileCount, ctxDone, gErr, ret, input, output>>

\* A worker that keeps only the latest failure.
AppendErrorOverwriting(errors, e) == <<e>>
\* "conversionErrors = append(conversionErrors, &ConversionError{...})"
AppendError(errors, e) == Append(errors, e)

\* The append, "mu.Unlock()" and the worker function's return.
Record(i) ==
    /\ wpc[i] = "locked"
    /\ conversionErrors' =
          AppendError(conversionErrors, [SourceFile |-> tree[i].path, Err |-> werr[i]])
    /\ mu' = 0
    /\ GoroutineEnds(i, werr[i])
    /\ UNCHANGED <<tables, variant, cfg, tree, dst, dstDirs, mainPC, walkIdx, files,
                   ret, input, output>>

\* A Wait that returns at once.
AllGoroutinesEndedNoWait == TRUE
\* errgroup's WaitGroup: every goroutine started by g.Go has ended.
AllGoroutinesEnded == \A i \in Entries : ~Active(i)

\* "g.Wait()": returns when every goroutine of the group has ended; before
\* it returns the group's first error it cancels the group's context.
Wait ==
    /\ mainPC = "wait"
    /\ AllGoroutinesEnded
    /\ ctxDone' = TRUE
    /\ IF gErr # NoErr
       THEN mainPC' = "done" /\ ret' = Returned(gErr, 0)
       ELSE mainPC' = "report" /\ ret' = ret
    /\ UNCHANGED <<tables, variant, cfg, tree, dst, dstDirs, walkIdx, files, wpc, werr, mu,
                   conversionErrors, fileCount, gErr, input, output>>

\* "if len(conversionErrors) > 0": the diagnostics and the terminal error
\* "encountered %d errors during conversion", or nil.
Report ==
    /\ mainPC = "report"
    /\ ret' = IF Len(conversionErrors) > 0
              THEN Returned("encountered", Len(conversionErrors))
              ELSE Returned(NoErr, 0)
    /\ mainPC' = "done"
    /\ UNCHANGED <<tables, variant, cfg, tree, dst, dstDirs, walkIdx, files, wpc, werr, mu,
                   conversionErrors, fileCount, ctxDone, gErr, input, output>>

Next ==
    \/ MkdirDst
    \/ NewConverter
    \/ WalkSkipDir
    \/ WalkGo
    \/ WalkCollect
    \/ WalkFails
    \/ WalkEnd
    \/ LoopGo
    \/ LoopEnd
    \/ Wait
    \/ Report
    \/ \E i \in Entries : Prepare(i)
    \/ \E i \in Entries : Create(i)
    \/ \E i \in Entries : Convert(i)
    \/ \E i \in Entries : Lock(i)
    \/ \E i \in Entries : Record(i)

Spec == Init /\ [][Next]_vars

\* The runs studied under fair scheduling: short documents, valid and
\* failing files, a tree whose walk fails, the limits 0, 1 and 2.
FairTrees ==
    {<<Directory(<<>>),
       File(<<(<<"a", ".md">>)>>, d, "none"),
       File(<<(<<"b", ".md">>)>>, DocSmall, f),
       sub,
       File(<<(<<"sub", ".md">>), (<<"a", ".md">>)>>, DocSmall, "none"),
       File(<<(<<"z", ".txt">>)>>, <<Txt>>, "none")>>
     : d \in {DocSmall, DocNoDelimiter}, f \in {"none", "write"},
       sub \in {Directory(<<(<<"sub", ".md">>)>>),
                UnreadableDirectory(<<(<<"sub", ".md">>)>>)}}

FairConfigs ==
    [SourceFormat : {FormatYAML}, TargetFormat : {FormatYAML},
     FileExtension : {DefaultFileExtension}, MaxConcurrency : {0, 1, 2},
     ConversionDirection : {DirectionHexoToHugo}]

InitFair ==
    /\ tables = PackageTables
    /\ variant \in Variants
    /\ cfg \in FairConfigs
    /\ tree \in FairTrees
    /\ EngineStart

\* The Go scheduler runs every goroutine that can run: ConvertPosts and its
\* workers keep taking steps as long as one of them can.
SpecFair == InitFair /\ [][Next]_vars /\ WF_vars(Next)

-----------------------------------------------------------------------------
(* The engine is at rest while a pure function is studied. *)

EngineIdle ==
    /\ tables = PackageTables
    /\ tree = <<>>
    /\ dst = <<>>
    /\ dstDirs = {}
    /\ mainPC = "idle"
    /\ walkIdx = 0
    /\ files = <<>>
    /\ wpc = <<>>
    /\ werr = <<>>
    /\ mu = 0
    /\ conversionErrors = <<>>
    /\ fileCount = 0
    /\ ctxDone = FALSE
    /\ gErr = NoErr
    /\ ret = [returned |-> FALSE]

-----------------------------------------------------------------------------
(* ConvertMarkdown on bounded documents *)

MaxPieces == 4

Pieces ==
    {FrontMatterDelimiter, <<Dash>>, <<NL>>, <<Txt>>,
     <<(<<FormatYAML, "title", "v1">>)>>,
     <<(<<FormatYAML, "permalink", "v1">>)>>,
     <<(<<FormatYAML, "slug", "v2">>)>>}

RECURSIVE DocsUpTo(_)
DocsUpTo(n) ==
    IF n = 0 THEN {<<>>}
    ELSE LET prev == DocsUpTo(n - 1) IN prev \cup {d \o p : d \in prev, p \in Pieces}

MarkdownConfigs ==
    [SourceFormat : {FormatYAML}, TargetFormat : {FormatYAML, FormatTOML},
     FileExtension : {DefaultFileExtension}, MaxConcurrency : {1},
     ConversionDirection : {DirectionHexoToHugo}]
    \cup
    [SourceFormat : {FormatYAML}, TargetFormat : {FormatYAML},
     FileExtension : {DefaultFileExtension}, MaxConcurrency : {1},
     ConversionDirection : {"other"}]

InitMarkdown ==
    /\ variant \in Variants
    /\ cfg \in MarkdownConfigs
    /\ input \in [doc : DocsUpTo(MaxPieces)]
    /\ output = [done |-> FALSE]
    /\ EngineIdle

\* One call ConvertMarkdown(r, w) with r holding input.doc; w receives text.
CallConvertMarkdown ==
    /\ ~output.done
    /\ \E r \in ConvertMarkdown(variant, cfg, input.doc) :
          output' = [done |-> TRUE, err |-> r.err, text |-> r.text, front |-> r.front,
                     again |-> FALSE]
    /\ UNCHANGED <<variant, cfg, input, engineVars>>

\* A second call ConvertMarkdown(r, w), r holding what the first call wrote.
CallConvertMarkdownAgain ==
    /\ output.done
    /\ ~output.again
    /\ output.err = NoErr
    /\ \E r \in ConvertMarkdown(variant, cfg, output.text) :
          output' = [done |-> TRUE, err |-> output.err, text |-> output.text,
                     front |-> output.front, again |-> TRUE,
                     err2 |-> r.err, text2 |-> r.text]
    /\ UNCHANGED <<variant, cfg, input, engineVars>>

NextMarkdown == CallConvertMarkdown \/ CallConvertMarkdownAgain

SpecMarkdown == InitMarkdown /\ [][NextMarkdown]_vars

-----------------------------------------------------------------------------
(* ConvertFrontMatter on bounded mappings *)

Directions == {DirectionHexoToHugo, DirectionHugoToHexo, "other"}

Mappings == UNION {[S -> Values] : S \in SUBSET AllKeys}

FrontMatterConfigs ==
    [SourceFormat : formatHandlers, TargetFormat : formatHandlers,
     FileExtension : {DefaultFileExtension}, MaxConcurrency : {1},
     ConversionDirection : Directions]

\* The front matter text is the one the source format writes for m.
InitFrontMatter ==
    /\ variant \in Variants
    /\ cfg \in FrontMatterConfigs
    /\ \E m \in Mappings :
          input = [m |-> m, text |-> Marshal(cfg.SourceFormat, m).text]
    /\ output = [done |-> FALSE]
    /\ EngineIdle

CallConvertFrontMatter ==
    /\ ~output.done
    /\ \E r \in ConvertFrontMatter(cfg, input.text) :
          output' = [done |-> TRUE, err |-> r.err, out |-> r.out, cm |-> r.cm]
    /\ UNCHANGED <<variant, cfg, input, engineVars>>

\* The configuration of the conversion back: the formats exchanged, the
\* other direction.
BackConfig(c) ==
    [c EXCEPT !.SourceFormat = c.TargetFormat,
              !.TargetFormat = c.SourceFormat,
              !.ConversionDirection = IF c.ConversionDirection = DirectionHexoToHugo
                                      THEN DirectionHugoToHexo ELSE DirectionHexoToHugo]

\* The front matter between the two delimiters of a returned text, as
\* ConvertMarkdown's split hands it over.
BetweenDelimiters(text) ==
    SubSeq(text, Len(FrontMatterDelimiter) + 1, Len(text) - Len(FrontMatterDelimiter))

\* A second converter, built for the other direction, converts the front
\* matter the first one returned.
CallConvertFrontMatterBack ==
    /\ output.done
    /\ output.err = NoErr
    /\ "back" \notin DOMAIN output
    /\ cfg.ConversionDirection \in DOMAIN tables.keyMappings
    /\ \E r \in ConvertFrontMatter(BackConfig(cfg), BetweenDelimiters(output.out)) :
          output' = [back |-> r.cm, backErr |-> r.err] @@ output
    /\ UNCHANGED <<variant, cfg, input, engineVars>>

NextFrontMatter == CallConvertFrontMatter \/ CallConvertFrontMatterBack

SpecFrontMatter == InitFrontMatter /\ [][NextFrontMatter]_vars

-----------------------------------------------------------------------------
(* Claims about ProcessFile and ConvertPosts (Spec) *)

Dispatched == {i \in Entries : wpc[i] # "idle"}
ProcessFileReturned(i) == wpc[i] \in {"failed", "locked", "returned"}
Matching(i) == ~tree[i].isDir /\ HasSuffix(tree[i].path, cfg.FileExtension)
Destination(i) == dst[DstPath(tree[i].path)]
\* ConvertPosts returned after configuration and enumeration succeeded.
RunEnded == ret.returned /\ FormatsSupported(cfg) /\ ret.err # "walk"

\* C1: in convert.go, when ProcessFile returns a failure that came after it
\* created the destination file (read, invalid document, decode, encode or
\* write error), the destination file does not exist.
C1_FailedDestinationRemoved ==
    variant = "convert" =>
        \A i \in Entries :
            (ProcessFileReturned(i) /\ werr[i] \in AfterCreate) => ~Destination(i).exists

\* C2: in part_000, when ProcessFile returns a failure that came after it
\* created the destination file, a failure of the final buffered flush
\* included, the destination file has been removed.
C2_BufferedFailureRemoved ==
    variant = "part_000" =>
        \A i \in Entries :
            (ProcessFileReturned(i) /\ werr[i] # NoErr /\ werr[i] \notin {"mkdir", "open", "create", "ctx"})
                => Destination(i) = NoFile

C2_Witness ==
    /\ variant = "part_000"
    /\ ret.returned
    /\ \E i \in Entries : tree[i].content = DocSmall /\ werr[i] = "write" /\ ~Destination(i).exists
    /\ \E i \in Entries : tree[i].content = DocPost /\ werr[i] = "write" /\ ~Destination(i).exists

\* What ProcessFile does with entry e when nothing else runs: the error it
\* returns and the destination file it leaves.
ProcessFileAlone(v, c, e) ==
    IF e.isDir \/ ~HasSuffix(e.path, c.FileExtension) THEN {[err |-> NoErr, file |-> NoFile]}
    ELSE IF e.fault \in {"mkdir", "open", "create"} THEN {[err |-> e.fault, file |-> NoFile]}
    ELSE ConvertAndClose(v, c, e)

Convertible(i) ==
    /\ Matching(i)
    /\ \A r \in ProcessFileAlone(variant, cfg, tree[i]) : r.err = NoErr

\* C3: per-file failures are isolated.  When the run has ended, every file
\* that converts on its own has its converted destination file, however
\* many other files failed; no ProcessFile was cut short by a cancelled
\* context, and every matching file was processed.
C3_FailuresIsolated ==
    /\ \A i \in Entries : werr[i] # "ctx"
    /\ ctxDone => mainPC \in {"report", "done"}
    /\ RunEnded =>
         \A i \in Entries :
            /\ Matching(i) => wpc[i] = "returned"
            /\ Convertible(i) =>
                 /\ werr[i] = NoErr
                 /\ [err |-> NoErr, file |-> Destination(i)]
                        \in ProcessFileAlone(variant, cfg, tree[i])
                 /\ Destination(i).exists

C3_Witness ==
    /\ RunEnded
    /\ \E i, j, k \in Entries :
         /\ j < k /\ k < i
         /\ werr[j] # NoErr /\ werr[k] # NoErr
         /\ Convertible(i) /\ Destination(i).exists /\ Destination(i).content # <<>>

\* C4: when configuration and enumeration succeed, ConvertPosts returns nil
\* exactly when no dispatched file's ProcessFile returned an error, and
\* otherwise "encountered N errors during conversion" with N the number of
\* dispatched files whose ProcessFile returned an error.
C4_ReturnCountsFailures ==
    RunEnded =>
        LET n == Cardinality({i \in Dispatched : werr[i] # NoErr}) IN
        /\ (ret.err = NoErr) <=> (n = 0)
        /\ n > 0 => (ret.err = "encountered" /\ ret.n = n)
        /\ Len(conversionErrors) = n

C4_Witness ==
    /\ RunEnded
    /\ ret.err = "encountered"
    /\ ret.n = 2
    /\ Cardinality({i \in Dispatched : werr[i] = NoErr}) >= 1

\* C5: at every moment of a run the number of file conversions in progress
\* is at most MaxConcurrency.
C5_AtMostMaxConcurrency ==
    Cardinality({i \in Entries : Active(i)}) <= cfg.MaxConcurrency

C5_Witness ==
    /\ cfg.MaxConcurrency = 2
    /\ Cardinality({i \in Entries : Active(i)}) = 2
    /\ \/ mainPC = "walk" /\ walkIdx <= Len(tree) /\ ~tree[walkIdx].isDir
       \/ mainPC = "dispatch" /\ walkIdx <= Len(files)

\* C6: the outcome of a run is a function of the source tree alone: for
\* every level of MaxConcurrency and every interleaving, each file ends with
\* the one result (error or not) and the one destination content that the
\* tree determines, so the counts of successes and failures are fixed too.
C6_OutcomeFixedByTree ==
    RunEnded =>
        \A i \in Entries :
            ~tree[i].isDir =>
                ProcessFileAlone(variant, cfg, tree[i])
                    = {[err |-> werr[i], file |-> Destination(i)]}

NoDestinationFile == \A p \in DOMAIN dst : ~dst[p].exists

\* C13: in convert.go, when the enumeration of the source tree fails,
\* ConvertPosts returns the walk error and no conversion was dispatched: no
\* worker was started and no destination file was created.
C13_WalkErrorBeforeAnyDispatch ==
    (variant = "convert" /\ ret.returned /\ ret.err = "walk")
        => (Dispatched = {} /\ NoDestinationFile)

UnsupportedFormatConfigured ==
    \/ cfg.SourceFormat \notin {"yaml", "toml"}
    \/ cfg.TargetFormat \notin {"yaml", "toml"}

\* C14: when the source or the target format is unsupported, ConvertPosts
\* returns before any I/O: the destination directory has not been created
\* and no file has been touched.
C14_ConfigurationErrorBeforeAnyIO ==
    (ret.returned /\ UnsupportedFormatConfigured)
        => (dstDirs = {} /\ NoDestinationFile /\ Dispatched = {})

\* C15: a direction other than hexo2hugo and hugo2hexo is rejected: no file
\* is dispatched for conversion and ConvertPosts returns a configuration
\* error, never nil and never the count of failed files.
C15_UnknownDirectionRejected ==
    cfg.ConversionDirection \notin {"hexo2hugo", "hugo2hexo"}
        => /\ Dispatched = {}
           /\ NoDestinationFile
           /\ ret.returned => ret.err = "ErrUnsupportedFormat"

EndsWithSuffix(i) ==
    LET name == tree[i].path[Len(tree[i].path)] IN name[Len(name)] = cfg.FileExtension

\* The path below dstDir that has the relative path of entry i below srcDir.
SameRelativePath(i) == <<(<<"dst">>)>> \o Tail(tree[i].path)
ParentOf(p) == SubSeq(p, 1, Len(p) - 1)

\* C17: a file that ProcessFile converted has its output at its own
\* relative path below dstDir; a destination file exists only at such a
\* path, and from the moment ProcessFile is about to create it the parent
\* directory of that path has been created.
C17_SameRelativePathDirectoryFirst ==
    /\ \A i \in Entries :
          (~tree[i].isDir /\ EndsWithSuffix(i) /\ wpc[i] = "returned" /\ werr[i] = "nil")
            => /\ SameRelativePath(i) \in DOMAIN dst
               /\ dst[SameRelativePath(i)].exists
               /\ dst[SameRelativePath(i)].content # <<>>
    /\ \A i \in Entries :
          wpc[i] \in {"opened", "created"} => ParentOf(SameRelativePath(i)) \in dstDirs
    /\ \A p \in DOMAIN dst :
          dst[p].exists
            => /\ ParentOf(p) \in dstDirs
               /\ \E i \in Entries :
                     /\ p = SameRelativePath(i)
                     /\ wpc[i] \in {"created", "failed", "locked", "returned"}

C17_Witness ==
    \E i \in Entries :
        /\ Len(tree[i].path) = Len(<<"src", "sub.md", "a.md">>)
        /\ wpc[i] = "returned"
        /\ SameRelativePath(i) = <<(<<"dst">>), (<<"sub", ".md">>), (<<"a", ".md">>)>>
        /\ dst[SameRelativePath(i)].exists
        /\ dst[SameRelativePath(i)].content # <<>>
        /\ <<(<<"dst">>), (<<"sub", ".md">>)>> \in dstDirs

Recorded(i) ==
    {k \in 1..Len(conversionErrors) : conversionErrors[k].SourceFile = tree[i].path}

\* C18: ConvertPosts converts exactly the regular files whose path ends
\* with the suffix.  A directory is never handed to a worker, whatever its
\* name; a file without the suffix is never opened, gets no destination
\* file and no recorded failure; and when the run has ended every regular
\* file with the suffix has been processed.
C18_OnlySuffixedRegularFilesConverted ==
    /\ \A i \in Entries :
          tree[i].isDir => (wpc[i] = "idle" /\ Recorded(i) = {})
    /\ \A i \in Entries :
          (~tree[i].isDir /\ ~EndsWithSuffix(i))
            => /\ wpc[i] \in {"idle", "started", "returned"}
               /\ werr[i] = "nil"
               /\ Recorded(i) = {}
               /\ ~Destination(i).exists
    /\ RunEnded =>
          \A i \in Entries :
             (~tree[i].isDir /\ EndsWithSuffix(i)) => wpc[i] = "returned"

C18_Witness ==
    /\ RunEnded
    /\ \E i, j, k \in Entries :
          /\ ~tree[i].isDir /\ ~EndsWithSuffix(i) /\ ~Destination(i).exists
          /\ tree[j].isDir /\ EndsWithSuffix(j) /\ wpc[j] = "idle"
          /\ ~tree[k].isDir /\ ParentOf(tree[k].path) = tree[j].path
          /\ Destination(k).exists

\* C19: the failure aggregate holds exactly one entry for each file whose
\* processing failed and whose worker has finished, with that file's source
\* path and the error ProcessFile returned, and no other entry; at most one
\* worker at a time is between mu.Lock and mu.Unlock.
C19_OneEntryPerFailedFile ==
    /\ Cardinality({i \in Entries : wpc[i] = "locked"}) <= 1
    /\ \A i \in Entries : wpc[i] = "locked" => mu = i
    /\ \A i \in Entries :
          IF wpc[i] = "returned" /\ werr[i] # "nil"
          THEN /\ Cardinality(Recorded(i)) = 1
               /\ \A k \in Recorded(i) : conversionErrors[k].Err = werr[i]
          ELSE Recorded(i) = {}
    /\ \A k \in 1..Len(conversionErrors) :
          \E i \in Entries : k \in Recorded(i)

C19_Witness ==
    /\ RunEnded
    /\ cfg.MaxConcurrency > 1
    /\ Len(conversionErrors) = 2
    /\ conversionErrors[1].SourceFile = <<(<<"src">>), (<<"b", ".md">>)>>
    /\ conversionErrors[2].SourceFile = <<(<<"src">>), (<<"a", ".md">>)>>
    /\ conversionErrors[1].Err # conversionErrors[2].Err

\* C20: ConvertPosts reads the failure aggregate, for the diagnostics and
\* for the terminal error, only when every dispatched worker has completed:
\* while it is at the report, and once it has returned nil or the count of
\* failures, no worker is running.
C20_AggregateReadAfterWorkers ==
    (mainPC = "report" \/ (ret.returned /\ ret.err \in {"nil", "encountered"}))
        => \A i \in Entries : wpc[i] \in {"idle", "returned"}

C20_Witness ==
    /\ mainPC = "report"
    /\ cfg.MaxConcurrency > 1
    /\ Len(conversionErrors) > 0
    /\ Cardinality({i \in Entries : wpc[i] = "returned"}) > 3

MatchedFiles == {i \in Entries : ~tree[i].isDir /\ EndsWithSuffix(i)}

\* C21: in part_000, when ConvertPosts is at its report step, the success
\* counter plus the number of recorded failures is the number of matched
\* files, and every matched file is counted once: in the counter when its
\* ProcessFile returned nil, in the aggregate otherwise.
C21_CounterPlusFailuresIsMatched ==
    (variant = "part_000" /\ (mainPC = "report" \/ RunEnded))
        => /\ fileCount + Len(conversionErrors) = Cardinality(MatchedFiles)
           /\ fileCount = Cardinality({i \in MatchedFiles : werr[i] = "nil"})
           /\ Len(conversionErrors) = Cardinality({i \in MatchedFiles : werr[i] # "nil"})
           /\ \A i \in MatchedFiles : wpc[i] = "returned"

C21_Witness ==
    /\ variant = "part_000"
    /\ mainPC = "report"
    /\ Len(conversionErrors) = 1
    /\ conversionErrors[1].Err = "ErrInvalidMarkdown"
    /\ fileCount = Cardinality(MatchedFiles) - 1
    /\ \A i \in MatchedFiles : werr[i] = "nil" => Destination(i).content # <<>>

C26_NoWorkerRunsAfterReturn ==
    (variant = "convert" /\ ret.returned)
        => \A i \in Entries : wpc[i] \in {"idle", "returned"}

\* C29: with MaxConcurrency 0 the configuration is accepted, and the first
\* dispatch blocks for ever: no worker starts, ConvertPosts does not get
\* past the first file it has to dispatch and does not return (part_000
\* returns only when its walk fails, before it has anything to dispatch);
\* once it is at that dispatch nothing in the run can take a step.
C29_ZeroLimitBlocksFirstDispatch ==
    (cfg.MaxConcurrency = 0 /\ cfg.SourceFormat = "yaml" /\ cfg.TargetFormat = "yaml")
        => /\ \A i \in Entries : wpc[i] = "idle"
           /\ ret.returned => (variant = "part_000" /\ ret.err = "walk")
           /\ mainPC = "done" => ret.returned
           /\ mainPC \notin {"wait", "report"}
           /\ (mainPC = "walk" /\ variant = "convert")
                 => \A k \in 1..(walkIdx - 1) : tree[k].isDir
           /\ mainPC = "dispatch" => walkIdx = 1
           /\ \/ (mainPC = "walk" /\ variant = "convert"
                    /\ walkIdx <= Len(tree) /\ ~tree[walkIdx].isDir)
              \/ (mainPC = "dispatch" /\ files # <<>>)
              => ~ENABLED Next

C29_Witness ==
    /\ cfg.MaxConcurrency = 0
    /\ variant = "convert"
    /\ mainPC = "walk"
    /\ dstDirs # {}
    /\ ~tree[walkIdx].isDir
    /\ \A i \in Entries : wpc[i] = "idle"

\* C30: within one run distinct source files have distinct destination
\* paths, so the workers that are between os.Create and their return at
\* the same moment work on different destination files.
C30_DistinctDestinations ==
    /\ \A i, j \in Entries :
          (i # j /\ ~tree[i].isDir /\ ~tree[j].isDir)
            => DstPath(tree[i].path) # DstPath(tree[j].path)
    /\ \A i, j \in Entries :
          (i # j /\ wpc[i] = "created" /\ wpc[j] = "created")
            => DstPath(tree[i].path) # DstPath(tree[j].path)

C30_Witness ==
    \E i, j \in Entries :
        /\ i # j
        /\ wpc[i] = "created" /\ wpc[j] = "created"
        /\ tree[i].path[Len(tree[i].path)] = tree[j].path[Len(tree[j].path)]
        /\ Destination(i).exists /\ Destination(j).exists

\* C31: the group context of a run is never cancelled while a worker runs:
\* every worker function returns nil, so the group keeps no error, no
\* ProcessFile returns the context error, and the wait on the group never
\* yields an error.
C31_ContextNotCancelledWhileWorkersRun ==
    /\ ctxDone => \A i \in Entries : wpc[i] \in {"idle", "returned"}
    /\ \A i \in Entries : wpc[i] \in {"failed", "locked", "returned"} => werr[i] # "ctx"
    /\ gErr = "nil"
    /\ ret.returned => ret.err \in {"nil", "encountered", "walk", ErrUnsupportedFormat}

\* A worker has failed and ended while another one is still inside
\* ProcessFile, the context not cancelled.
C31_Witness ==
    /\ ~ctxDone
    /\ \E i, j \in Entries :
          /\ wpc[i] = "returned" /\ werr[i] = "ErrInvalidMarkdown"
          /\ wpc[j] \in {"opened", "created"}

-----------------------------------------------------------------------------
(* Claims about ConvertMarkdown (SpecMarkdown) *)

IsDash(s, i) == i >= 1 /\ i <= Len(s) /\ s[i] = <<"-">>
ThreeDashes(s, i) == IsDash(s, i) /\ IsDash(s, i + 1) /\ IsDash(s, i + 2)

RECURSIVE OccurrencesFrom(_, _)
\* The positions of the occurrences of "---" in s from position i on, counted
\* from the left without overlap.
OccurrencesFrom(s, i) ==
    IF i + 2 > Len(s) THEN <<>>
    ELSE IF ThreeDashes(s, i) THEN <<i>> \o OccurrencesFrom(s, i + 3)
    ELSE OccurrencesFrom(s, i + 1)

Occurrences(s) == OccurrencesFrom(s, 1)

AfterSecondDelimiter(s) == SubSeq(s, Occurrences(s)[2] + 3, Len(s))
BeforeFirstDelimiter(s) == SubSeq(s, 1, Occurrences(s)[1] - 1)

\* C7: an input with fewer than two occurrences of "---" (none, one, or the
\* empty input) makes ConvertMarkdown return ErrInvalidMarkdown, and nothing
\* is written.
C7_FewerThanTwoDelimitersInvalid ==
    (output.done /\ Len(Occurrences(input.doc)) < 2)
        => (output.err = ErrInvalidMarkdown /\ output.text = <<>>)

C7_Witness ==
    /\ output.done
    /\ Len(Occurrences(input.doc)) = 1
    /\ input.doc[Len(input.doc)] = Txt
    /\ output.err = ErrInvalidMarkdown

\* C8: when a document with at least two occurrences of "---" is converted,
\* only the first two are boundaries: what is written is the converted front
\* matter, two newlines, and then exactly the input after the second
\* occurrence, further "---" included.
C8_BodyAfterSecondDelimiterVerbatim ==
    (output.done /\ output.err = NoErr)
        => /\ Len(Occurrences(input.doc)) >= 2
           /\ output.text
                = output.front \o <<NL, NL>> \o AfterSecondDelimiter(input.doc)

C8_Witness ==
    /\ output.done
    /\ output.err = NoErr
    /\ Len(Occurrences(input.doc)) >= 3
    /\ Len(Occurrences(AfterSecondDelimiter(input.doc))) >= 1

\* C9: a document is accepted only if the text before its first "---" is
\* empty or whitespace; one with other text there is rejected.
C9_TextBeforeFirstDelimiterRejected ==
    (output.done /\ output.err = NoErr)
        => \A i \in 1..Len(BeforeFirstDelimiter(input.doc)) :
              BeforeFirstDelimiter(input.doc)[i] = NL

RECURSIVE LeadingNewlines(_)
LeadingNewlines(s) ==
    IF s # <<>> /\ Head(s) = <<"n">> THEN 1 + LeadingNewlines(Tail(s)) ELSE 0

\* The key table of the configured direction has no entry.
EmptyKeyTable == cfg.ConversionDirection \notin {"hexo2hugo", "hugo2hexo"}

\* C11: with the same source and target format and an empty key table,
\* converting the output of a conversion gives that output again, byte for
\* byte.
C11_ConvertingTwiceIsConvertingOnce ==
    (output.done /\ output.again /\ EmptyKeyTable
        /\ cfg.SourceFormat = cfg.TargetFormat)
        => (output.err2 = "nil" /\ output.text2 = output.text)

\* C12: in every document that ConvertMarkdown writes, exactly one blank
\* line lies between the closing delimiter of the metadata block and the
\* body: the closing delimiter is followed by two newlines and then by the
\* first line of the body.
C12_OneBlankLineBeforeBody ==
    (output.done /\ output.err = "nil"
        /\ \E i \in 1..Len(AfterSecondDelimiter(input.doc)) :
              AfterSecondDelimiter(input.doc)[i] # <<"n">>)
        => LeadingNewlines(SubSeq(output.text, Len(output.front) + 1, Len(output.text)))
              = Len(<<"end of the delimiter line", "blank line">>)

\* What the target format's encoder wrote: the converted front matter
\* without its opening line and its closing delimiter.
EncodedMetadata ==
    SubSeq(output.front, Len(<<"-", "-", "-", "n">>) + 1,
           Len(output.front) - Len(<<"-", "-", "-">>))

\* C23: a successfully converted document has exactly two occurrences of
\* "---" whenever neither the encoded metadata nor the body of the source
\* document contains "---".
C23_TwoDelimitersInOutput ==
    (output.done /\ output.err = "nil"
        /\ Occurrences(AfterSecondDelimiter(input.doc)) = <<>>
        /\ Occurrences(EncodedMetadata) = <<>>)
        => Len(Occurrences(output.text)) = Len(<<"opening", "closing">>)

C23_Witness ==
    /\ output.done
    /\ output.err = "nil"
    /\ \E i \in 1..Len(input.doc) : input.doc[i] = <<"yaml", "title", "v1">>
    /\ input.doc[Len(input.doc)] = <<"x">>
    /\ Occurrences(AfterSecondDelimiter(input.doc)) = <<>>
    /\ Len(Occurrences(output.text)) = Len(<<"opening", "closing">>)

-----------------------------------------------------------------------------
(* Claims about ConvertFrontMatter (SpecFrontMatter) *)

\* The renaming of the direction's table, written out.
Renamed(direction, k) ==
    CASE direction = "hexo2hugo" /\ k = "permalink" -> "slug"
      [] direction = "hexo2hugo" /\ k = "updated" -> "lastmod"
      [] direction = "hexo2hugo" /\ k = "sticky" -> "weight"
      [] direction = "hugo2hexo" /\ k = "slug" -> "permalink"
      [] direction = "hugo2hexo" /\ k = "lastmod" -> "updated"
      [] direction = "hugo2hexo" /\ k = "weight" -> "sticky"
      [] OTHER -> k

NoTwoKeysRenamedAlike(direction, m) ==
    \A j, k \in DOMAIN m : Renamed(direction, j) = Renamed(direction, k) => j = k

\* The mapping that the returned text holds between its two delimiters.
WrittenMapping ==
    Unmarshal(cfg.TargetFormat,
              SubSeq(output.out, Len(FrontMatterDelimiter) + 1,
                     Len(output.out) - Len(FrontMatterDelimiter)))

CarriesEveryKey ==
    /\ output.err = NoErr
    /\ DOMAIN output.cm = {Renamed(cfg.ConversionDirection, k) : k \in DOMAIN input.m}
    /\ \A k \in DOMAIN input.m :
          output.cm[Renamed(cfg.ConversionDirection, k)] = input.m[k]
    /\ ~WrittenMapping.err
    /\ WrittenMapping.m = output.cm
    /\ (cfg.ConversionDirection = "hexo2hugo" /\ "permalink" \in DOMAIN input.m)
          => /\ "permalink" \notin DOMAIN output.cm
             /\ output.cm["slug"] = input.m["permalink"]

\* C10 as stated: for every decoded mapping M and every direction, the
\* encoded mapping has, for every key k of M, the value M[k] under k's
\* renamed key (k itself when the table has no entry); nothing fails, and
\* under hexo2hugo 'slug' holds the value of 'permalink'.
C10_EveryMappingCarried == output.done => CarriesEveryKey

\* C10, amended: the same for every mapping in which no two keys have the
\* same renamed key.
C10_CarriedWhenNoTwoKeysRenamedAlike ==
    (output.done /\ NoTwoKeysRenamedAlike(cfg.ConversionDirection, input.m))
        => CarriesEveryKey

\* C25: the remap step is deterministic: for every decoded mapping the
\* converted mapping is the same whatever the order in which the loop
\* visits the keys, also when the mapping holds a source key of the table
\* together with its target key.
C25_RemapIndependentOfOrder ==
    (output.done /\ output.err = "nil")
        => ConvertedMaps(KeyMapOf(cfg.ConversionDirection), input.m) = {output.cm}

\* C32: the two key tables are inverse on their declared keys: a mapping
\* with no key in {slug, lastmod, weight}, converted under hexo2hugo and
\* the result converted under hugo2hexo, comes back as it was, and so does
\* a mapping with no key in {permalink, updated, sticky} converted under
\* hugo2hexo and then under hexo2hugo.
C32_TablesInverseOnDeclaredKeys ==
    /\ ("back" \in DOMAIN output /\ cfg.ConversionDirection = "hexo2hugo"
          /\ DOMAIN input.m \cap {"slug", "lastmod", "weight"} = {})
        => (output.backErr = "nil" /\ output.back = input.m)
    /\ ("back" \in DOMAIN output /\ cfg.ConversionDirection = "hugo2hexo"
          /\ DOMAIN input.m \cap {"permalink", "updated", "sticky"} = {})
        => (output.backErr = "nil" /\ output.back = input.m)

C32_Witness ==
    /\ "back" \in DOMAIN output
    /\ cfg.ConversionDirection = "hexo2hugo"
    /\ cfg.SourceFormat = "yaml" /\ cfg.TargetFormat = "toml"
    /\ input.m = ("permalink" :> "v1" @@ "updated" :> "v2" @@ "sticky" :> "v1"
                   @@ "title" :> "v2")
    /\ output.cm = ("slug" :> "v1" @@ "lastmod" :> "v2" @@ "weight" :> "v1"
                     @@ "title" :> "v2")
    /\ output.back = input.m

\* C34: for every mapping, the text ConvertFrontMatter returns is the
\* delimiter line, the encoded mapping and the delimiter: one delimiter at
\* the start and one at the end and no other, the encoding of the
\* converted mapping between them, and no blank line anywhere between the
\* two delimiters, also when the decoded mapping is empty.
C34_DelimitersWrapEncodedMapping ==
    (output.done /\ output.err = "nil") =>
        /\ Occurrences(output.out) = <<1, Len(output.out) - Len(FrontMatterDelimiter) + 1>>
        /\ output.out[Len(FrontMatterDelimiter) + 1] = NL
        /\ SubSeq(output.out, Len(FrontMatterDelimiter) + 2,
                  Len(output.out) - Len(FrontMatterDelimiter))
              = Marshal(cfg.TargetFormat, output.cm).text
        /\ \A i \in 1..(Len(output.out) - 1) : ~(output.out[i] = NL /\ output.out[i + 1] = NL)
        /\ input.m = EmptyMap =>
              output.out \in {FrontMatterDelimiter \o <<NL>> \o FrontMatterDelimiter,
                              FrontMatterDelimiter \o <<NL, Braces, NL>> \o FrontMatterDelimiter}

C34_Witness ==
    /\ output.done /\ output.err = "nil"
    /\ DOMAIN input.m = {}
    /\ cfg.TargetFormat = "toml"
    /\ Len(output.out) = Len(FrontMatterDelimiter) + Len(<<NL>>) + Len(FrontMatterDelimiter)

C10_Witness ==
    /\ output.done
    /\ cfg.ConversionDirection = "hexo2hugo"
    /\ cfg.TargetFormat = "toml"
    /\ DOMAIN input.m = {"permalink", "title", "weight"}
    /\ output.cm = ("slug" :> input.m["permalink"] @@ "title" :> input.m["title"]
                     @@ "weight" :> input.m["weight"])

-----------------------------------------------------------------------------
(* ProcessFile on a file system where the destination directory may be the *)
(* source directory or lie inside it, and where the destination path may   *)
(* hold a file already.  input.fs is the file system before the call,      *)
(* output.fs the current one.                                              *)

OutDir == srcDir \o <<(<<"out">>)>>
Destinations == {dstDir, srcDir, OutDir}

\* "dstPath := filepath.Join(fp.dstDir, relPath)" for a processor whose
\* destination directory is d.
DstPathUnder(d, path) == Join(d, Rel(srcDir, path))

SourcePath == srcDir \o <<(<<"a", ".md">>)>>
OldOutput == <<Txt, NL, Txt>>

FileSystems ==
    {[p \in {DstPathUnder(d, SourcePath) : d \in Destinations} |->
        IF p = SourcePath THEN [exists |-> TRUE, content |-> doc]
        ELSE IF p \in old THEN [exists |-> TRUE, content |-> OldOutput]
        ELSE NoFile]
     : doc \in {DocPost, DocSmall, DocNoDelimiter, DocBadFrontMatter},
       old \in SUBSET {DstPathUnder(dstDir, SourcePath), DstPathUnder(OutDir, SourcePath)}}

InitProcessFile ==
    /\ variant \in Variants
    /\ cfg \in MarkdownConfigs
    /\ input \in [dstDir : Destinations, path : {SourcePath},
                   fault : {"none", "open", "create", "write"}, fs : FileSystems]
    /\ output = [pc |-> "start", err |-> NoErr, fs |-> input.fs]
    /\ EngineIdle

\* ProcessFile up to os.Open: the path has the suffix, MkdirAll succeeds.
ProcessFileOpen ==
    /\ output.pc = "start"
    /\ HasSuffix(input.path, cfg.FileExtension)
    /\ output' = IF input.fault = "open"
                  THEN [output EXCEPT !.pc = "returned", !.err = "open"]
                  ELSE [output EXCEPT !.pc = "opened"]
    /\ UNCHANGED <<variant, cfg, input, engineVars>>

\* "dstFile, err := os.Create(dstPath)": the file at dstPath is created, or
\* truncated when it exists.
ProcessFileCreate ==
    /\ output.pc = "opened"
    /\ output' = IF input.fault = "create"
                  THEN [output EXCEPT !.pc = "returned", !.err = "create"]
                  ELSE [output EXCEPT !.pc = "created",
                                      !.fs[DstPathUnder(input.dstDir, input.path)] =
                                          [exists |-> TRUE, content |-> <<>>]]
    /\ UNCHANGED <<variant, cfg, input, engineVars>>

\* ConvertMarkdown reads what the source file holds now, the result goes to
\* dstPath; the return and the deferred closure.
ProcessFileConvert ==
    /\ output.pc = "created"
    /\ \E r \in ConvertAndClose(variant, cfg,
                    [content |-> output.fs[input.path].content, fault |-> input.fault]) :
          output' = [output EXCEPT !.pc = "returned", !.err = r.err,
                                   !.fs[DstPathUnder(input.dstDir, input.path)] = r.file]
    /\ UNCHANGED <<variant, cfg, input, engineVars>>

NextProcessFile == ProcessFileOpen \/ ProcessFileCreate \/ ProcessFileConvert

SpecProcessFile == InitProcessFile /\ [][NextProcessFile]_vars

\* C27: the source tree is never modified: for every choice of the
\* destination directory, the source directory itself and a directory
\* inside it included, every file that was under srcDir before the run is
\* there with the same content after it.
C27_SourceTreeUnchanged ==
    output.pc = "returned"
        => \A p \in DOMAIN input.fs :
              (input.fs[p].exists /\ SubSeq(p, 1, Len(srcDir)) = srcDir)
                  => output.fs[p] = input.fs[p]

\* C28: when the conversion of a file fails, its destination path is as it
\* was before the run: a file that was there is neither truncated nor
\* removed.
C28_FailedConversionLeavesDestination ==
    (output.pc = "returned" /\ output.err # "nil"
        /\ DstPathUnder(input.dstDir, input.path) # input.path)
        => output.fs[DstPathUnder(input.dstDir, input.path)]
              = input.fs[DstPathUnder(input.dstDir, input.path)]

-----------------------------------------------------------------------------
(* Two ConvertPosts runs at the same time, each on directories of its own. *)
(* input.runs[r] is the configuration and the files of run r, and          *)
(* input.alone[r][i] what ProcessFile gives for its file i when the run is *)
(* the only one in the process; output holds the position, the results     *)
(* and the return value of each run.  The runs share the package-level     *)
(* tables.                                                                 *)

Runs == {1, 2}
DocSlug == FrontMatterDelimiter \o <<Y("slug", "v2"), NL>> \o FrontMatterDelimiter \o <<Txt>>

RunConfig(direction) ==
    [SourceFormat |-> FormatYAML, TargetFormat |-> FormatYAML,
     FileExtension |-> DefaultFileExtension, MaxConcurrency |-> 1,
     ConversionDirection |-> direction]

RunFiles ==
    {<<File(<<(<<"a", ".md">>)>>, a, "none"), File(<<(<<"b", ".md">>)>>, b, "none")>>
     : a \in {DocPost, DocSlug}, b \in {DocSlug, DocNoDelimiter}}

Pending == [pending |-> TRUE]

InitParallel ==
    /\ EngineIdle
    /\ variant \in Variants
    /\ cfg = RunConfig(DirectionHexoToHugo)
    /\ \E d1, d2 \in {DirectionHexoToHugo, DirectionHugoToHexo} :
       \E f1, f2 \in RunFiles :
          LET runs == <<[cfg |-> RunConfig(d1), files |-> f1],
                        [cfg |-> RunConfig(d2), files |-> f2]>>
          IN input = [runs |-> runs,
                      alone |-> [r \in Runs |-> [i \in 1..Len(runs[r].files) |->
                                    ProcessFileAlone(variant, runs[r].cfg, runs[r].files[i])]]]
    /\ output = [pc |-> [r \in Runs |-> "start"],
                 res |-> [r \in Runs |-> [i \in 1..Len(input.runs[r].files) |-> Pending]],
                 ret |-> [r \in Runs |-> [returned |-> FALSE]]]

ParallelUnchanged ==
    UNCHANGED <<variant, cfg, input, tree, dst, dstDirs, mainPC, walkIdx, files, wpc,
                werr, mu, conversionErrors, fileCount, ctxDone, gErr, ret>>

\* Run r builds its converter from the package-level tables.
ParallelNewConverter(r) ==
    /\ output.pc[r] = "start"
    /\ tables' = TablesAfterNewConverter(tables, input.runs[r].cfg)
    /\ output' = [output EXCEPT !.pc[r] = "run"]
    /\ ParallelUnchanged

\* A worker of run r processes its file i.
ParallelProcessFile(r, i) ==
    /\ output.pc[r] = "run"
    /\ output.res[r][i] = Pending
    /\ \E x \in ProcessFileAlone(variant, input.runs[r].cfg, input.runs[r].files[i]) :
          output' = [output EXCEPT !.res[r][i] = x]
    /\ UNCHANGED tables
    /\ ParallelUnchanged

\* Run r has waited for its workers and returns.
ParallelReport(r) ==
    /\ output.pc[r] = "run"
    /\ \A i \in DOMAIN output.res[r] : output.res[r][i] # Pending
    /\ LET n == Cardinality({i \in DOMAIN output.res[r] : output.res[r][i].err # NoErr})
       IN output' = [output EXCEPT !.pc[r] = "done",
                                   !.ret[r] = IF n > 0 THEN Returned("encountered", n)
                                              ELSE Returned(NoErr, 0)]
    /\ UNCHANGED tables
    /\ ParallelUnchanged

NextParallel ==
    \/ \E r \in Runs : ParallelNewConverter(r)
    \/ \E r \in Runs : \E i \in DOMAIN output.res[r] : ParallelProcessFile(r, i)
    \/ \E r \in Runs : ParallelReport(r)

SpecParallel == InitParallel /\ [][NextParallel]_vars

\* C24: runs that execute at the same time on pairwise disjoint
\* directories do not interfere: the package-level tables stay as the
\* package initialised them, and a run that has returned has, for each of
\* its files, the result and the destination file it has when it runs
\* alone, and returns the same value.
C24_ParallelRunsDoNotInterfere ==
    /\ tables.formatHandlers = {"yaml", "toml"}
    /\ DOMAIN tables.keyMappings = {"hexo2hugo", "hugo2hexo"}
    /\ tables.keyMappings["hexo2hugo"]
          = [k \in {"permalink", "updated", "sticky"} |-> Renamed("hexo2hugo", k)]
    /\ tables.keyMappings["hugo2hexo"]
          = [k \in {"slug", "lastmod", "weight"} |-> Renamed("hugo2hexo", k)]
    /\ \A r \in {1, 2} :
          output.pc[r] = "done"
            => /\ \A i \in DOMAIN output.res[r] : output.res[r][i] \in input.alone[r][i]
               /\ output.ret[r].n
                     = Cardinality({i \in DOMAIN output.res[r] :
                                      \E x \in input.alone[r][i] : x.err # "nil"})

C24_Witness ==
    /\ output.pc[1] = "done" /\ output.pc[2] = "done"
    /\ input.runs[1].cfg.ConversionDirection = "hugo2hexo"
    /\ input.runs[2].cfg.ConversionDirection = "hexo2hugo"
    /\ output.res[1][1].err = "nil" /\ output.res[2][1].err = "nil"
    /\ \E k \in 1..Len(output.res[1][1].file.content) :
          output.res[1][1].file.content[k] = <<"yaml", "permalink", "v2">>
    /\ \E k \in 1..Len(output.res[2][1].file.content) :
          output.res[2][1].file.content[k] = <<"yaml", "slug", "v2">>
    /\ output.ret[2].err = "encountered"

-----------------------------------------------------------------------------
(* getKeyMap of unnamed/part_001: one declared table, hexo2hugo, and the  *)
(* reverse table built from it at construction.                           *)

\* part_001's keyMappings: the forward table only, with the keys that keep
\* their name declared too.
keyMappingsPart001 ==
    DirectionHexoToHugo :>
        ("title" :> "title" @@ "categories" :> "categories" @@ "date" :> "date"
         @@ "description" :> "description" @@ "keywords" :> "keywords"
         @@ "permalink" :> "slug" @@ "tags" :> "tags" @@ "updated" :> "lastmod"
         @@ "sticky" :> "weight")

RECURSIVE Inversions(_, _)
\* "for hexo, hugo := range t { hugoToHexo[hugo] = hexo }": the maps the loop
\* can leave, whatever the order in which it visits the keys; of the keys
\* with the same value any can be the one stored last.
Inversions(t, values) ==
    IF values = {} THEN {EmptyMap}
    ELSE LET v == CHOOSE v \in values : TRUE
             sources == {k \in DOMAIN t : t[k] = v}
         IN {(v :> k) @@ rest : k \in sources, rest \in Inversions(t, values \ {v})}

InvertedMaps(t) == Inversions(t, {t[k] : k \in DOMAIN t})

\* getKeyMap: the forward table for hexo2hugo, the reverse table otherwise.
getKeyMap(direction) ==
    IF direction = DirectionHexoToHugo THEN {keyMappingsPart001[DirectionHexoToHugo]}
    ELSE InvertedMaps(keyMappingsPart001[DirectionHexoToHugo])

KeyMapConfigs ==
    [SourceFormat : {FormatYAML}, TargetFormat : {FormatYAML},
     FileExtension : {DefaultFileExtension}, MaxConcurrency : {1},
     ConversionDirection : Directions \cup {""}]

InitKeyMap ==
    /\ variant = "part_001"
    /\ cfg \in KeyMapConfigs
    /\ input \in [m : Mappings]
    /\ output = [done |-> FALSE]
    /\ EngineIdle

\* NewFrontMatterConverter takes its keyMap from getKeyMap, and the loop of
\* ConvertFrontMatter remaps input.m with it.
CallGetKeyMap ==
    /\ ~output.done
    /\ \E keyMap \in getKeyMap(cfg.ConversionDirection) :
       \E cm \in ConvertedMaps(keyMap, input.m) :
          output' = [done |-> TRUE, keyMap |-> keyMap, cm |-> cm]
    /\ UNCHANGED <<variant, cfg, input, engineVars>>

SpecKeyMap == InitKeyMap /\ [][CallGetKeyMap]_vars

DeclaredKeys == AllKeys \cup DOMAIN keyMappingsPart001["hexo2hugo"]

\* C33: the reverse table that getKeyMap builds renames every key as the
\* declared hugo2hexo table of convert.go does (slug to permalink, lastmod
\* to updated, weight to sticky, every other key to itself), and
\* getKeyMap returns it for direction hugo2hexo only: for any other
\* direction the table it returns is not the reverse table.
C33_ReverseTableForHugoToHexoOnly ==
    output.done =>
        ((\A k \in DeclaredKeys : TargetKey(output.keyMap, k) = Renamed("hugo2hexo", k))
            <=> cfg.ConversionDirection = "hugo2hexo")

====
